---- MODULE Spec2Model ----
(***************************************************************************)
(* Model of the knowledge retrieval and query routing engine of            *)
(* BioSphereAI: app/rag.py (RAGSystem), app/agents.py (Agent, AgentSystem) *)
(* and the interface of app/data_loader.py (DataLoader) they consume.      *)
(*                                                                         *)
(* Texts are sequences of tokens.  A token is either a single character    *)
(* (zone names and query texts are spelled character by character, so that *)
(* lower-casing and substring search are computed as Python computes them) *)
(* or a fixed phrase of a format string that contains no zone name.        *)
(***************************************************************************)
EXTENDS Integers, Sequences, FiniteSets, TLC

VARIABLES
    locations,      \* DataLoader.metadata keys, in insertion order
    dataset,        \* the (location, variable) pairs the loader has data for
    model,          \* the embedding function instance (RAGSystem.model)
    documents,      \* RAGSystem.documents
    index,          \* RAGSystem.index
    initialized,    \* RAGSystem.initialized
    history,        \* Agent.conversation_history, per agent name
    inflight,       \* route/ask calls blocked in requests.post
    lastOp,         \* the call that returned last, with its arguments
    ret,            \* what that call returned
    ncalls          \* number of calls started so far

vars == <<locations, dataset, model, documents, index, initialized,
          history, inflight, lastOp, ret, ncalls>>

(***************************************************************************)
(* Bounds                                                                  *)
(***************************************************************************)
MaxCalls == 2
MaxAsks == 1
NumEncoders == 2
MaxTurns == 6

(***************************************************************************)
(* Text helpers                                                            *)
(***************************************************************************)
UpperToLower ==
    [c \in {"A","B","C","D","E","F","G","H","I","J","K","L","M","N","O","P",
            "Q","R","S","T","U","V","W","X","Y","Z"} |->
        CASE c = "A" -> "a" [] c = "B" -> "b" [] c = "C" -> "c" [] c = "D" -> "d"
          [] c = "E" -> "e" [] c = "F" -> "f" [] c = "G" -> "g" [] c = "H" -> "h"
          [] c = "I" -> "i" [] c = "J" -> "j" [] c = "K" -> "k" [] c = "L" -> "l"
          [] c = "M" -> "m" [] c = "N" -> "n" [] c = "O" -> "o" [] c = "P" -> "p"
          [] c = "Q" -> "q" [] c = "R" -> "r" [] c = "S" -> "s" [] c = "T" -> "t"
          [] c = "U" -> "u" [] c = "V" -> "v" [] c = "W" -> "w" [] c = "X" -> "x"
          [] c = "Y" -> "y" [] c = "Z" -> "z"]

\* str.lower()
Lower(text) ==
    [i \in 1..Len(text) |->
        IF text[i] \in DOMAIN UpperToLower THEN UpperToLower[text[i]] ELSE text[i]]

\* the Python test `needle in hay` on strings
IsSubstring(needle, hay) ==
    \E i \in 0..(Len(hay) - Len(needle)) :
        SubSeq(hay, i + 1, i + Len(needle)) = needle

RECURSIVE Flatten(_)
Flatten(seqs) ==
    IF seqs = <<>> THEN <<>> ELSE Head(seqs) \o Flatten(Tail(seqs))

\* sep.join(parts)
RECURSIVE Join(_, _)
Join(sep, parts) ==
    IF parts = <<>> THEN <<>>
    ELSE IF Len(parts) = 1 THEN parts[1]
    ELSE parts[1] \o sep \o Join(sep, Tail(parts))

\* text.split(sep) for a one-token separator
RECURSIVE Split(_, _)
Split(sep, text) ==
    IF \A i \in 1..Len(text) : text[i] # sep THEN <<text>>
    ELSE LET p == CHOOSE i \in 1..Len(text) :
                      text[i] = sep /\ \A j \in 1..(i - 1) : text[j] # sep
         IN  <<SubSeq(text, 1, p - 1)>> \o Split(sep, SubSeq(text, p + 1, Len(text)))

Range(s) == {s[i] : i \in 1..Len(s)}

(***************************************************************************)
(* Zone names                                                              *)
(***************************************************************************)
ZoneChars ==
    [z \in {"Desert", "Rainforest", "Ocean", "LEO-W"} |->
        CASE z = "Desert"     -> <<"D","e","s","e","r","t">>
          [] z = "Rainforest" -> <<"R","a","i","n","f","o","r","e","s","t">>
          [] z = "Ocean"      -> <<"O","c","e","a","n">>
          [] z = "LEO-W"      -> <<"L","E","O","-","W">>]

\* the agents created in the order of DataLoader.get_locations()
AgentNames_metadata == <<"Ocean", "Desert", "Rainforest", "LEO-W">>

\* the registry without the Ocean agent
AgentNames_noOcean == <<"Desert", "Rainforest", "LEO-W">>

\* the keys of AgentSystem.agents, in insertion order
AgentNames == <<"Desert", "Rainforest", "Ocean", "LEO-W">>

\* the keys of DataLoader.metadata, in insertion order
MetadataLocations == <<"Ocean", "Desert", "Rainforest", "LEO-W">>

\* DataLoader.metadata[location]['variables']
MetadataVariables ==
    [z \in {"Desert", "Rainforest", "Ocean", "LEO-W"} |->
        CASE z = "Ocean"      -> <<"pH", "Temperature", "Salinity", "Dissolved oxygen">>
          [] z = "Desert"     -> <<"Temperature", "Relative humidity", "Carbon dioxide">>
          [] z = "Rainforest" -> <<"Temperature", "Relative humidity", "Carbon dioxide",
                                   "Radiation", "Wind speed", "Wind direction">>
          [] z = "LEO-W"      -> <<"Air pressure", "Carbon dioxide", "Water vapor",
                                   "Radiation", "Wind speed", "Temperature",
                                   "Relative humidity">>]

\* absent optional argument (Python None)
None == "None"

(***************************************************************************)
(* DataLoader: the interface consumed by the corpus builder                *)
(***************************************************************************)
\* The data files that may be present under data_dir.  Each gives the
\* summary mapping (column -> statistics, in hundredths) of one
\* (location, variable) pair.
DataFiles ==
    { [location |-> "Desert", variable |-> "Temperature",
       columns |-> << [col |-> "Temp_1", mean |-> 3000, min |-> 2000, max |-> 4000, std |-> 500],
                      [col |-> "Temp_2", mean |-> 2950, min |-> 1900, max |-> 4100, std |-> 525] >>] }

\* More data files that may be present under data_dir: a second variable
\* of Desert, a variable of Ocean, and a file of Ocean from which no
\* column statistics can be computed (the summary is the empty mapping).
CorpusFiles ==
    DataFiles \cup
    { [location |-> "Desert", variable |-> "Carbon dioxide",
       columns |-> << [col |-> "CO2_1", mean |-> 4100, min |-> 3900, max |-> 4500, std |-> 150] >>],
      [location |-> "Ocean", variable |-> "pH",
       columns |-> << [col |-> "pH_1", mean |-> 810, min |-> 790, max |-> 830, std |-> 10] >>],
      [location |-> "Ocean", variable |-> "Salinity", columns |-> <<>>] }

\* DataLoader.get_locations()
GetLocations(locs) == locs

\* DataLoader.get_variables(location)
GetVariables(locs, location) ==
    IF location \in Range(locs) THEN MetadataVariables[location] ELSE <<>>

\* DataLoader.get_variable_summary(location, variable): the columns with
\* their statistics, <<>> standing for both None and the empty mapping
GetVariableSummary(ds, location, variable) ==
    IF \E f \in ds : f.location = location /\ f.variable = variable
    THEN (CHOOSE f \in ds : f.location = location /\ f.variable = variable).columns
    ELSE <<>>

\* DataLoader.get_data_timeframe(location): <<>> for None
GetDataTimeframe(ds, location) ==
    IF \E f \in ds : f.location = location
    THEN <<"2025-02-01", "2025-02-28">>
    ELSE <<>>

(***************************************************************************)
(* RAGSystem._create_documents                                             *)
(***************************************************************************)
Digit == <<"0","1","2","3","4","5","6","7","8","9">>

\* f"{x:.2f}" for a value given in hundredths, 0 <= x < 100
Fmt2(h) ==
    (IF h \div 100 < 10 THEN <<Digit[(h \div 100) + 1]>>
     ELSE <<Digit[(h \div 1000) + 1], Digit[((h \div 100) % 10) + 1]>>)
    \o <<".", Digit[((h \div 10) % 10) + 1], Digit[(h % 10) + 1]>>

LocationContent(locs, ds, location) ==
    LET variables == GetVariables(locs, location)
        timeframe == GetDataTimeframe(ds, location)
    IN  <<"Location: ">> \o ZoneChars[location] \o <<". ">>
        \o <<"Variables available: ">>
        \o Join(<<", ">>, [i \in 1..Len(variables) |-> <<variables[i]>>])
        \o <<". ">>
        \o (IF timeframe # <<>>
            THEN <<"Data available from ", timeframe[1], " to ", timeframe[2], ".">>
            ELSE <<>>)

VariableContent(location, variable, stats) ==
    <<"Variable: ", variable, " (", stats.col, ") in ">> \o ZoneChars[location] \o <<". ">>
    \o <<"Mean value: ">> \o Fmt2(stats.mean) \o <<", ">>
    \o <<"Range: ">> \o Fmt2(stats.min) \o <<" to ">> \o Fmt2(stats.max) \o <<", ">>
    \o <<"Standard deviation: ">> \o Fmt2(stats.std) \o <<".">>

\* the variable_info documents of one (location, variable) pair
VariableDocuments(ds, location, variable) ==
    LET summary == GetVariableSummary(ds, location, variable)
    IN  [c \in 1..Len(summary) |->
            [content  |-> VariableContent(location, variable, summary[c]),
             location |-> location,
             variable |-> variable,
             column   |-> summary[c].col,
             type     |-> "variable_info"]]

\* the location_info record after the variable records
LocationDocuments_infoLast(locs, ds, location) ==
    LET variables == GetVariables(locs, location)
    IN  Flatten([v \in 1..Len(variables) |->
                        VariableDocuments(ds, location, variables[v])])
        \o << [content  |-> LocationContent(locs, ds, location),
                location |-> location,
                type     |-> "location_info"] >>

\* the loop over the variables left at the first one without a summary
LocationDocuments_stop(locs, ds, location) ==
    LET variables == GetVariables(locs, location)
        summarised(v) == GetVariableSummary(ds, location, variables[v]) # <<>>
    IN  << [content  |-> LocationContent(locs, ds, location),
            location |-> location,
            type     |-> "location_info"] >>
        \o Flatten([v \in 1..Len(variables) |->
                        IF \A u \in 1..v : summarised(u)
                        THEN VariableDocuments(ds, location, variables[v])
                        ELSE <<>>])

\* the documents of one location: its location_info, then its variables
LocationDocuments(locs, ds, location) ==
    LET variables == GetVariables(locs, location)
    IN  << [content  |-> LocationContent(locs, ds, location),
            location |-> location,
            type     |-> "location_info"] >>
        \o Flatten([v \in 1..Len(variables) |->
                        VariableDocuments(ds, location, variables[v])])

CreateDocuments(locs, ds) ==
    Flatten([l \in 1..Len(GetLocations(locs)) |->
                LocationDocuments(locs, ds, GetLocations(locs)[l])])

(***************************************************************************)
(* The embedding function and the flat L2 index                            *)
(***************************************************************************)
\* the query texts the callers send
QueryTexts ==
    << <<"p","H","?">>,
       <<"h","o","t"," ","D","E","S","E","R","T">>,
       <<"O","c","e","a","n"," ","d","e","s","e","r","t">> >>

\* questions that name no zone, sent to _identify_location_from_query
ZoneQuestions ==
    << <<"s","a","l","t","y","?">> >>

Contents(docs) == [i \in 1..Len(docs) |-> docs[i].content]

\* every text that is ever embedded
AllTexts ==
    QueryTexts \o Contents(CreateDocuments(MetadataLocations, DataFiles))
               \o Contents(CreateDocuments(MetadataLocations, {}))
               \o ZoneQuestions
               \o Contents(CreateDocuments(MetadataLocations, CorpusFiles))

\* the position of the first occurrence of text in texts
FirstIndex(texts, text) ==
    CHOOSE i \in 1..Len(texts) :
        texts[i] = text /\ \A j \in 1..(i - 1) : texts[j] # text

\* the encoder instances differ in how finely they separate texts:
\* instance 1 gives ten different vectors, instance 2 only two
EncoderScale == <<1, 5, 2, 3, 4>>

\* the vector encoder instance m gives the text numbered id
Vector(m, id) == << (EncoderScale[m] * id) % 5, id % 2 >>

\* SentenceTransformer.encode for one text: a pure function of the text,
\* one per encoder instance m
Encode(m, text) == Vector(m, FirstIndex(AllTexts, text))

\* squared Euclidean distance
L2(a, b) == (a[1] - b[1]) * (a[1] - b[1]) + (a[2] - b[2]) * (a[2] - b[2])

NoIndex == [built |-> FALSE, vectors |-> <<>>]

\* faiss.IndexFlatL2.search for one query vector: the labels (0-based
\* ordinals) of the k nearest vectors by ascending distance, equal
\* distances in ordinal order, padded with -1 when fewer than k exist
Search(vectors, q, k) ==
    LET n == Len(vectors)
        Before(j, i) == \/ L2(vectors[j], q) < L2(vectors[i], q)
                        \/ L2(vectors[j], q) = L2(vectors[i], q) /\ j < i
    IN  [p \in 1..k |->
            IF p <= n
            THEN (CHOOSE i \in 1..n : Cardinality({j \in 1..n : Before(j, i)}) = p - 1) - 1
            ELSE -1]

\* list[idx] for a Python list, idx a 0-based or negative index
PyItem(list, idx) ==
    IF idx >= 0 THEN list[idx + 1] ELSE list[Len(list) + idx + 1]

(***************************************************************************)
(* RAGSystem                                                               *)
(***************************************************************************)
\* the vectors index.add stores, one per document, in document order
Embeddings(docs, m) == [i \in 1..Len(docs) |-> Encode(m, docs[i].content)]

\* _create_index without the early return: encoding no text gives an
\* array without a second dimension, and reading it raises
CreateIndex_raise(docs, m, old) ==
    IF docs = <<>>
    THEN [raised |-> TRUE, index |-> old]
    ELSE [raised |-> FALSE, index |-> [built |-> TRUE, vectors |-> Embeddings(docs, m)]]

\* _create_index over a document list: the index it leaves in self.index
\* and whether it raised
CreateIndex(docs, m, old) ==
    IF docs = <<>>
    THEN [raised |-> FALSE, index |-> old]
    ELSE [raised |-> FALSE, index |-> [built |-> TRUE, vectors |-> Embeddings(docs, m)]]

\* the end of initialize(): self.initialized = True unless the build raised
Installed(docs, ci) ==
    [documents |-> docs, index |-> ci.index,
     initialized |-> ~ci.raised, raised |-> ci.raised]

\* initialize() past its guard: _create_documents, then _create_index
Build(docs, m, old) == Installed(docs, CreateIndex(docs, m, old))

\* initialize() without the `if self.initialized: return` guard
Initialize_rebuild(rag, locs, ds, m) ==
    Build(CreateDocuments(locs, ds), m, rag.index)

\* initialize(): the RAGSystem state it leaves and whether it raised
Initialize(rag, locs, ds, m) ==
    IF rag.initialized
    THEN [documents |-> rag.documents, index |-> rag.index,
          initialized |-> TRUE, raised |-> FALSE]
    ELSE Build(CreateDocuments(locs, ds), m, rag.index)

\* the loop of query() taking the record before the one a label names
RECURSIVE Retrieve_shifted(_, _)
Retrieve_shifted(docs, labels) ==
    IF labels = <<>> THEN <<>>
    ELSE (IF Head(labels) < Len(docs) THEN <<PyItem(docs, Head(labels) - 1)>> ELSE <<>>)
         \o Retrieve_shifted(docs, Tail(labels))

\* the loop of query() over the labels returned by the search
RECURSIVE Retrieve(_, _)
Retrieve(docs, labels) ==
    IF labels = <<>> THEN <<>>
    ELSE (IF Head(labels) < Len(docs) THEN <<PyItem(docs, Head(labels))>> ELSE <<>>)
         \o Retrieve(docs, Tail(labels))

\* query() after initialize() without the `if not self.index: return []`
\* check: searching the absent index raises
QueryIndex_nocheck(st, m, query_text, top_k) ==
    IF st.raised \/ ~st.index.built
    THEN [results |-> <<>>, rag |-> st, raised |-> TRUE]
    ELSE [results |-> Retrieve(st.documents,
                               Search(st.index.vectors, Encode(m, query_text), top_k)),
          rag |-> st, raised |-> FALSE]

\* query() after initialize() has left the RAGSystem in state st
QueryIndex(st, m, query_text, top_k) ==
    IF st.raised
    THEN [results |-> <<>>, rag |-> st, raised |-> TRUE]
    ELSE IF ~st.index.built
    THEN [results |-> <<>>, rag |-> st, raised |-> FALSE]
    ELSE [results |-> Retrieve(st.documents,
                               Search(st.index.vectors, Encode(m, query_text), top_k)),
          rag |-> st, raised |-> FALSE]

\* query() rebuilding the records and the index from the loader on
\* every call
Query_rebuild(rag, locs, ds, m, query_text, top_k) ==
    QueryIndex(Initialize_rebuild(rag, locs, ds, m), m, query_text, top_k)

\* query() searching whatever index there is, without the call of
\* initialize()
Query_nobuild(rag, locs, ds, m, query_text, top_k) ==
    QueryIndex([documents |-> rag.documents, index |-> rag.index,
                initialized |-> rag.initialized, raised |-> FALSE],
               m, query_text, top_k)

\* query(query_text, top_k): the results, the RAGSystem state it leaves
\* and whether it raised
Query(rag, locs, ds, m, query_text, top_k) ==
    QueryIndex(Initialize(rag, locs, ds, m), m, query_text, top_k)

\* the location filter dropped
FilterLocation_keepall(results, location) == results

\* the location filter of get_context_for_query
RECURSIVE FilterLocation(_, _)
FilterLocation(results, location) ==
    IF results = <<>> THEN <<>>
    ELSE (IF Head(results).location = location THEN <<Head(results)>> ELSE <<>>)
         \o FilterLocation(Tail(results), location)

\* get_context_for_query after its call q of query()
ContextOf(q, location) ==
    [context |-> Join(<<"\n">>,
                      Contents(IF location # None /\ location # ""
                               THEN FilterLocation(q.results, location)
                               ELSE q.results)),
     rag |-> q.rag, raised |-> q.raised]

\* get_context_for_query(query, location)
GetContextForQuery(rag, locs, ds, m, query, location) ==
    ContextOf(Query(rag, locs, ds, m, query, 5), location)

(***************************************************************************)
(* The generation service (requests.post to the Ollama API)                *)
(***************************************************************************)
StatusText == (200 :> "200") @@ (404 :> "404") @@ (500 :> "500") @@ (503 :> "503")

ModelAnswer == <<"The mean pH is 8.10.">>

\* what one call of requests.post can do: raise, or return a response
\* with a status code, a body text and the JSON object the body parses to
TransportError ==
    [kind |-> "exception", status_code |-> 0, text |-> <<>>,
     json |-> "none", has_response |-> FALSE, response |-> <<>>]

Response(code, body, json, has, answer) ==
    [kind |-> "response", status_code |-> code, text |-> body,
     json |-> json, has_response |-> has, response |-> answer]

GenerationOutcomes ==
    { TransportError,
      Response(200, <<"{response: ...}">>, "object", TRUE, ModelAnswer),
      Response(200, <<"{}">>, "object", FALSE, <<>>),
      Response(200, <<"<html>">>, "invalid", FALSE, <<>>),
      Response(500, <<"Internal Server Error">>, "none", FALSE, <<>>),
      Response(503, <<"Internal Server Error">>, "none", FALSE, <<>>),
      Response(500, <<"model not found">>, "none", FALSE, <<>>) }

(***************************************************************************)
(* Agent                                                                   *)
(***************************************************************************)
AgentDescription ==
    [z \in {"Desert", "Rainforest", "Ocean", "LEO-W"} |->
        CASE z = "Desert"     -> "The Desert biome in BioSphere 2 is a hot, arid environment ..."
          [] z = "Rainforest" -> "The Rainforest biome in BioSphere 2 is a humid, tropical environment ..."
          [] z = "Ocean"      -> "The Ocean biome in BioSphere 2 is a saltwater environment ..."
          [] z = "LEO-W"      -> "The LEO-W (Landscape Evolution Observatory - West) is ..."]

\* Agent.get_system_prompt
GetSystemPrompt(name) ==
    <<"You are an expert on the BioSphere 2 ">> \o ZoneChars[name] \o <<" biome.", "\n">>
    \o <<AgentDescription[name], "\n">>
    \o <<"Answer questions about the ">> \o ZoneChars[name] \o <<" environment and its data.", "\n">>
    \o <<"IMPORTANT: Always use the actual data provided in the context to answer questions. Never make up or guess values.", "\n">>
    \o <<"If the data is not available in the context, say \"I don't have enough data to answer that question\" rather than making assumptions.", "\n">>
    \o <<"Be precise and scientific in your responses.">>

\* conversation_history[:5]
LastFive_first(hist) ==
    IF Len(hist) <= 5 THEN hist ELSE SubSeq(hist, 1, 5)

\* conversation_history[-5:]
LastFive(hist) ==
    IF Len(hist) <= 5 THEN hist ELSE SubSeq(hist, Len(hist) - 4, Len(hist))

\* the lines one history entry contributes
EntryLines(entry) ==
    << <<"User: ">> \o entry.user >>
    \o (IF entry.assistant # <<>>
        THEN << <<"Assistant: ">> \o entry.assistant[1] >>
        ELSE <<>>)

\* Agent.get_conversation_context
GetConversationContext(hist) ==
    IF hist = <<>> THEN <<>>
    ELSE Join(<<"\n">>,
              Flatten([i \in 1..Len(LastFive(hist)) |-> EntryLines(LastFive(hist)[i])]))

\* the prompt with the conversation history before the retrieved data
AgentPrompt_historyFirst(name, hist, context, user_message) ==
    GetSystemPrompt(name)
    \o <<"\n", "\n", "Conversation History:", "\n">> \o GetConversationContext(hist)
    \o <<"\n", "\n", "Relevant Data:", "\n">> \o context
    \o <<"\n", "\n", "User: ">> \o user_message \o <<"\n", "Assistant:">>

\* the prompt Agent.query builds
AgentPrompt(name, hist, context, user_message) ==
    GetSystemPrompt(name)
    \o <<"\n", "\n", "Relevant Data:", "\n">> \o context
    \o <<"\n", "\n", "Conversation History:", "\n">> \o GetConversationContext(hist)
    \o <<"\n", "\n", "User: ">> \o user_message \o <<"\n", "Assistant:">>

\* the message returned for a non-success status
StatusErrorMessage(outcome) ==
    <<"I'm having trouble connecting to my knowledge base. Please try again later. (">>
    \o <<"Error: ", StatusText[outcome.status_code], " - ">> \o outcome.text
    \o <<")">>

TechnicalDifficulties == <<"I'm having technical difficulties. Please try again later.">>

NoResponseDefault == <<"Sorry, I could not generate a response.">>

\* the answer stored in a history cut to its last five entries
PatchLast_trimmed(hist, answer) ==
    [LastFive(hist) EXCEPT
        ![Len(LastFive(hist))] = [@ EXCEPT !.assistant = <<answer>>]]

\* conversation_history[-1]['assistant'] = answer
PatchLast(hist, answer) ==
    [hist EXCEPT ![Len(hist)] = [@ EXCEPT !.assistant = <<answer>>]]

\* Agent.query catching no exception: when requests.post or
\* response.json() raises, the call returns no answer
AgentQueryEnd_uncaught(hist, outcome) ==
    IF outcome.kind = "exception"
    THEN [answer |-> <<>>, history |-> hist]
    ELSE IF outcome.status_code = 200
    THEN IF outcome.json = "invalid"
         THEN [answer |-> <<>>, history |-> hist]
         ELSE LET answer == IF outcome.has_response THEN outcome.response
                            ELSE NoResponseDefault
              IN  [answer |-> answer, history |-> PatchLast(hist, answer)]
    ELSE [answer |-> StatusErrorMessage(outcome), history |-> hist]

\* Agent.query from the try block on: the answer returned and the
\* history it leaves, for one outcome of requests.post
AgentQueryEnd(hist, outcome) ==
    IF outcome.kind = "exception"
    THEN [answer |-> TechnicalDifficulties, history |-> hist]
    ELSE IF outcome.status_code = 200
    THEN IF outcome.json = "invalid"
         THEN [answer |-> TechnicalDifficulties, history |-> hist]
         ELSE LET answer == IF outcome.has_response THEN outcome.response
                            ELSE NoResponseDefault
              IN  [answer |-> answer, history |-> PatchLast(hist, answer)]
    ELSE [answer |-> StatusErrorMessage(outcome), history |-> hist]

(***************************************************************************)
(* AgentSystem                                                             *)
(***************************************************************************)
GeneralSystemPrompt ==
    <<"You are an expert on BioSphere 2, a large-scale Earth system science research facility.", "\n",
      "It contains several biomes including Desert, Rainforest, Ocean, and LEO-W.", "\n",
      "Answer general questions about BioSphere 2 and suggest which specific biome might have more detailed information.">>

\* the prompt _generate_general_response builds
GeneralPrompt(context, query) ==
    GeneralSystemPrompt
    \o <<"\n", "\n", "Relevant Data:", "\n">> \o context
    \o <<"\n", "\n", "User: ">> \o query \o <<"\n", "Assistant:">>

\* _generate_general_response from the try block on
GeneralResponseEnd(outcome) ==
    IF outcome.kind = "exception"
    THEN TechnicalDifficulties
    ELSE IF outcome.status_code = 200
    THEN IF outcome.json = "invalid"
         THEN TechnicalDifficulties
         ELSE IF outcome.has_response THEN outcome.response ELSE NoResponseDefault
    ELSE StatusErrorMessage(outcome)

\* the most frequent item, the one registered first among equally
\* frequent ones
MostCommon_registered(items) ==
    LET Count(x) == Cardinality({i \in 1..Len(items) : items[i] = x})
        Rank(x) == CHOOSE i \in 1..4 :
                       <<"Desert", "Rainforest", "Ocean", "LEO-W">>[i] = x
    IN  CHOOSE x \in Range(items) :
            \A y \in Range(items) \ {x} :
                \/ Count(x) > Count(y)
                \/ Count(x) = Count(y) /\ Rank(x) < Rank(y)

\* the most frequent item, the one counted last among equally frequent
\* ones
MostCommon_last(items) ==
    LET Count(x) == Cardinality({i \in 1..Len(items) : items[i] = x})
        First(x) == CHOOSE i \in 1..Len(items) :
                        items[i] = x /\ \A j \in 1..(i - 1) : items[j] # x
    IN  CHOOSE x \in Range(items) :
            \A y \in Range(items) \ {x} :
                \/ Count(x) > Count(y)
                \/ Count(x) = Count(y) /\ First(x) > First(y)

\* Counter(items).most_common(1)[0][0]: the most frequent item, the one
\* counted first among equally frequent ones
MostCommon(items) ==
    LET Count(x) == Cardinality({i \in 1..Len(items) : items[i] = x})
        First(x) == CHOOSE i \in 1..Len(items) :
                        items[i] = x /\ \A j \in 1..(i - 1) : items[j] # x
    IN  CHOOSE x \in Range(items) :
            \A y \in Range(items) \ {x} :
                \/ Count(x) > Count(y)
                \/ Count(x) = Count(y) /\ First(x) < First(y)

\* the keyword scan against the query as typed, not lower-cased
RECURSIVE KeywordMatches_nolower(_, _)
KeywordMatches_nolower(agents, query) ==
    IF agents = <<>> THEN <<>>
    ELSE (IF IsSubstring(Lower(ZoneChars[Head(agents)]), query)
          THEN <<Head(agents)>> ELSE <<>>) \o KeywordMatches_nolower(Tail(agents), query)

\* the keyword scan of _identify_location_from_query: the agent names,
\* in registry order, whose lower-cased name occurs in the lower-cased query
RECURSIVE KeywordMatches(_, _)
KeywordMatches(agents, query) ==
    IF agents = <<>> THEN <<>>
    ELSE (IF IsSubstring(Lower(ZoneChars[Head(agents)]), Lower(query))
          THEN <<Head(agents)>> ELSE <<>>) \o KeywordMatches(Tail(agents), query)

\* [doc.get('location') for doc in results if 'location' in doc]
RECURSIVE ResultLocations(_)
ResultLocations(results) ==
    IF results = <<>> THEN <<>>
    ELSE (IF "location" \in DOMAIN Head(results) THEN <<Head(results).location>> ELSE <<>>)
         \o ResultLocations(Tail(results))

\* the retrieval vote of _identify_location_from_query after its call q
\* of query()
VoteOf(q) ==
    [location |-> IF ResultLocations(q.results) # <<>>
                  THEN MostCommon(ResultLocations(q.results))
                  ELSE None,
     rag |-> q.rag, raised |-> q.raised]

\* _identify_location_from_query: the location (None when there is
\* none), the RAGSystem state it leaves and whether it raised
IdentifyLocationFromQuery(agents, rag, locs, ds, m, query) ==
    IF KeywordMatches(agents, query) # <<>>
    THEN [location |-> Head(KeywordMatches(agents, query)), rag |-> rag, raised |-> FALSE]
    ELSE VoteOf(Query(rag, locs, ds, m, query, 2))

(***************************************************************************)
(* The state machine                                                       *)
(***************************************************************************)
\* the RAGSystem object
Rag == [documents |-> documents, index |-> index, initialized |-> initialized]

\* top_k values the callers use: 5 by get_context_for_query, 2 by
\* _identify_location_from_query, 1 for a single best hit
TopKs == {1, 2, 5}

\* values of the optional location argument of route_query
LocationArgs == {None, "Ocean", "ocean"}

\* values of the optional location argument of get_context_for_query
FilterArgs == {None, "", "Ocean", "ocean"}

NoOutcome ==
    [kind |-> "none", status_code |-> 0, text |-> <<>>,
     json |-> "none", has_response |-> FALSE, response |-> <<>>]

Op(op, text, location, top_k, agent, outcome, raised) ==
    [op |-> op, text |-> text, location |-> location, top_k |-> top_k,
     agent |-> agent, outcome |-> outcome, raised |-> raised]

Ret(answer, results, location) ==
    [answer |-> answer, results |-> results, location |-> location]

NoRet == Ret(<<>>, <<>>, None)

Init ==
    /\ locations \in {<<>>, MetadataLocations}
    /\ dataset \in SUBSET {f \in DataFiles : f.location \in Range(locations)}
    /\ model \in 1..NumEncoders
    /\ documents = <<>>
    /\ index = NoIndex
    /\ initialized = FALSE
    /\ history = <<>>
    /\ inflight = {}
    /\ lastOp = Op("none", <<>>, None, 0, None, NoOutcome, FALSE)
    /\ ret = NoRet
    /\ ncalls = 0

\* the state after construction, the loader reading any of the data files
InitCorpus ==
    /\ locations \in {<<>>, MetadataLocations}
    /\ dataset \in SUBSET {f \in CorpusFiles : f.location \in Range(locations)}
    /\ model \in 1..NumEncoders
    /\ documents = <<>>
    /\ index = NoIndex
    /\ initialized = FALSE
    /\ history = <<>>
    /\ inflight = {}
    /\ lastOp = Op("none", <<>>, None, 0, None, NoOutcome, FALSE)
    /\ ret = NoRet
    /\ ncalls = 0

SetRag(st) ==
    /\ documents' = st.documents
    /\ index' = st.index
    /\ initialized' = st.initialized

\* a caller may start a call when fewer than lim calls are in progress
MayCall(lim) == ncalls < MaxCalls /\ Cardinality(inflight) < lim

\* the number of history entries of all agents
RECURSIVE TotalHistory(_)
TotalHistory(names) ==
    IF names = {} THEN 0
    ELSE LET z == CHOOSE n \in names : TRUE
         IN  Len(history[z]) + TotalHistory(names \ {z})

\* a caller may start a call that reaches an agent
MayAsk(lim) == MayCall(lim) /\ TotalHistory(DOMAIN history) < MaxAsks

\* a call of the RAGSystem returns, leaving it in state st
RagReturns(st, op, value) ==
    /\ SetRag(st)
    /\ lastOp' = op
    /\ ret' = value

\* initialize() returns
InitializeReturns(st) ==
    RagReturns(st, Op("initialize", <<>>, None, 0, None, NoOutcome, st.raised), NoRet)

\* query(text, k) returns q
QueryReturns(text, k, q) ==
    RagReturns(q.rag, Op("query", text, None, k, None, NoOutcome, q.raised),
               Ret(<<>>, q.results, None))

\* get_context_for_query(text, loc) returns c
ContextReturns(text, loc, c) ==
    RagReturns(c.rag, Op("get_context_for_query", text, loc, 5, None, NoOutcome, c.raised),
               Ret(c.context, <<>>, None))

\* _identify_location_from_query(text) returns r
IdentifyReturns(text, r) ==
    RagReturns(r.rag, Op("identify", text, None, 0, None, NoOutcome, r.raised),
               Ret(<<>>, <<>>, r.location))

\* AgentSystem.__init__ after rag_system.initialize() has left state st
Constructed(st) ==
    /\ RagReturns(st, Op("construct", <<>>, None, 0, None, NoOutcome, st.raised), NoRet)
    /\ history' = IF st.raised THEN history
                  ELSE [z \in Range(AgentNames) |-> <<>>]

\* the prompt built from the history as it was before the append
AgentQueryCalls_unappended(op, name, text, loc, c) ==
    /\ SetRag(c.rag)
    /\ IF c.raised
       THEN /\ lastOp' = Op(op, text, loc, 0, name, NoOutcome, TRUE)
            /\ ret' = NoRet
            /\ UNCHANGED inflight
       ELSE /\ inflight' = inflight \cup
                  { [id |-> ncalls, op |-> op, kind |-> "agent", agent |-> name,
                     text |-> text, location |-> loc,
                     prompt |-> AgentPrompt(name, history[name], c.context, text)] }
            /\ UNCHANGED <<lastOp, ret>>

\* Agent.query blocks in requests.post (or has raised before) after
\* get_context_for_query returned c
AgentQueryCalls(op, name, text, loc, c) ==
    /\ SetRag(c.rag)
    /\ IF c.raised
       THEN /\ lastOp' = Op(op, text, loc, 0, name, NoOutcome, TRUE)
            /\ ret' = NoRet
            /\ UNCHANGED inflight
       ELSE /\ inflight' = inflight \cup
                  { [id |-> ncalls, op |-> op, kind |-> "agent", agent |-> name,
                     text |-> text, location |-> loc,
                     prompt |-> AgentPrompt(name, history'[name], c.context, text)] }
            /\ UNCHANGED <<lastOp, ret>>

\* the question appended to the history of every agent
AgentQueryBegin_broadcast(op, st, name, text, loc) ==
    /\ history' = [z \in DOMAIN history |->
                      Append(history[z], [user |-> text, assistant |-> <<>>])]
    /\ AgentQueryCalls(op, name, text, loc,
                       GetContextForQuery(st, locations, dataset, model, text, name))

\* Agent.query up to the call of requests.post (lines 34-49), entered
\* through op with the optional location argument loc, the RAGSystem
\* being in state st
AgentQueryBegin(op, st, name, text, loc) ==
    /\ history' = [history EXCEPT
                      ![name] = Append(@, [user |-> text, assistant |-> <<>>])]
    /\ AgentQueryCalls(op, name, text, loc,
                       GetContextForQuery(st, locations, dataset, model, text, name))

\* the general response remembering the question in the history of the
\* first agent
GeneralResponseCalls_remember(text, loc, c) ==
    /\ SetRag(c.rag)
    /\ history' = [history EXCEPT
                      ![AgentNames[1]] = Append(@, [user |-> text, assistant |-> <<>>])]
    /\ IF c.raised
       THEN /\ lastOp' = Op("route_query", text, loc, 0, None, NoOutcome, TRUE)
            /\ ret' = NoRet
            /\ UNCHANGED inflight
       ELSE /\ inflight' = inflight \cup
                  { [id |-> ncalls, op |-> "route_query", kind |-> "general",
                     agent |-> None, text |-> text, location |-> loc,
                     prompt |-> GeneralPrompt(c.context, text)] }
            /\ UNCHANGED <<lastOp, ret>>

\* _generate_general_response blocks in requests.post (or has raised
\* before) after get_context_for_query returned c
GeneralResponseCalls(text, loc, c) ==
    /\ SetRag(c.rag)
    /\ UNCHANGED history
    /\ IF c.raised
       THEN /\ lastOp' = Op("route_query", text, loc, 0, None, NoOutcome, TRUE)
            /\ ret' = NoRet
            /\ UNCHANGED inflight
       ELSE /\ inflight' = inflight \cup
                  { [id |-> ncalls, op |-> "route_query", kind |-> "general",
                     agent |-> None, text |-> text, location |-> loc,
                     prompt |-> GeneralPrompt(c.context, text)] }
            /\ UNCHANGED <<lastOp, ret>>

\* _generate_general_response up to the call of requests.post
GeneralResponseBegin(st, text, loc) ==
    GeneralResponseCalls(text, loc,
                         GetContextForQuery(st, locations, dataset, model, text, None))

\* route_query after _identify_location_from_query returned r
Dispatch(text, loc, r) ==
    IF r.raised \/ (r.location # None /\ r.location \notin DOMAIN history)
    THEN /\ SetRag(r.rag)
         /\ lastOp' = Op("route_query", text, loc, 0, None, NoOutcome, TRUE)
         /\ ret' = NoRet
         /\ UNCHANGED <<history, inflight>>
    ELSE IF r.location # None
    THEN AgentQueryBegin("route_query", r.rag, r.location, text, loc)
    ELSE GeneralResponseBegin(r.rag, text, loc)

\* a data file appears under data_dir
FileArrives ==
    /\ \E f \in DataFiles \ dataset :
          /\ f.location \in Range(locations)
          /\ dataset' = dataset \cup {f}
    /\ UNCHANGED <<locations, model, documents, index, initialized,
                   history, inflight, lastOp, ret, ncalls>>

\* one of the data files appears under data_dir
SummaryArrives ==
    /\ \E f \in CorpusFiles \ dataset :
          /\ f.location \in Range(locations)
          /\ dataset' = dataset \cup {f}
    /\ UNCHANGED <<locations, model, documents, index, initialized,
                   history, inflight, lastOp, ret, ncalls>>

\* RAGSystem.initialize()
CallInitialize(lim) ==
    /\ MayCall(lim)
    /\ InitializeReturns(Initialize(Rag, locations, dataset, model))
    /\ ncalls' = ncalls + 1
    /\ UNCHANGED <<locations, dataset, model, history, inflight>>

\* RAGSystem.query(query_text, top_k)
CallQuery(lim) ==
    /\ MayCall(lim)
    /\ \E text \in Range(QueryTexts), k \in TopKs :
          QueryReturns(text, k, Query(Rag, locations, dataset, model, text, k))
    /\ ncalls' = ncalls + 1
    /\ UNCHANGED <<locations, dataset, model, history, inflight>>

\* RAGSystem.query(content, top_k=1) with the content of a stored record
CallQueryRecord(lim) ==
    /\ MayCall(lim)
    /\ \E i \in 1..Len(documents) :
          QueryReturns(documents[i].content, 1,
                       Query(Rag, locations, dataset, model, documents[i].content, 1))
    /\ ncalls' = ncalls + 1
    /\ UNCHANGED <<locations, dataset, model, history, inflight>>

\* RAGSystem.get_context_for_query(query, location)
CallGetContext(lim) ==
    /\ MayCall(lim)
    /\ \E text \in Range(QueryTexts), loc \in FilterArgs :
          ContextReturns(text, loc,
                         GetContextForQuery(Rag, locations, dataset, model, text, loc))
    /\ ncalls' = ncalls + 1
    /\ UNCHANGED <<locations, dataset, model, history, inflight>>

\* AgentSystem.__init__: initialize the RAG system, create the agents
Construct ==
    /\ DOMAIN history = {}
    /\ inflight = {}
    /\ Constructed(Initialize(Rag, locations, dataset, model))
    /\ UNCHANGED <<locations, dataset, model, inflight, ncalls>>

\* AgentSystem._identify_location_from_query(query)
CallIdentify(lim) ==
    /\ MayCall(lim)
    /\ DOMAIN history # {}
    /\ \E text \in Range(QueryTexts) :
          IdentifyReturns(text, IdentifyLocationFromQuery(AgentNames, Rag, locations,
                                                          dataset, model, text))
    /\ ncalls' = ncalls + 1
    /\ UNCHANGED <<locations, dataset, model, history, inflight>>

\* AgentSystem._identify_location_from_query(query) for any question
IdentifyZone(lim) ==
    /\ MayCall(lim)
    /\ DOMAIN history # {}
    /\ \E text \in Range(QueryTexts) \cup Range(ZoneQuestions) :
          IdentifyReturns(text, IdentifyLocationFromQuery(AgentNames, Rag, locations,
                                                          dataset, model, text))
    /\ ncalls' = ncalls + 1
    /\ UNCHANGED <<locations, dataset, model, history, inflight>>

\* Agent.query(user_message) called on an agent directly
AskBegin(lim) ==
    /\ MayAsk(lim)
    /\ \E name \in DOMAIN history, text \in Range(QueryTexts) :
          AgentQueryBegin("agent_query", Rag, name, text, None)
    /\ ncalls' = ncalls + 1
    /\ UNCHANGED <<locations, dataset, model>>

\* route_query identifying the zone from the text even when a
\* registered location is supplied
RouteBegin_identify(lim) ==
    /\ MayAsk(lim)
    /\ DOMAIN history # {}
    /\ \E text \in Range(QueryTexts), loc \in LocationArgs :
          Dispatch(text, loc,
                   IdentifyLocationFromQuery(AgentNames, Rag, locations,
                                             dataset, model, text))
    /\ ncalls' = ncalls + 1
    /\ UNCHANGED <<locations, dataset, model>>

\* Agent.query(user_message) called by one of two threads, up to the call
\* of requests.post: Agent.query takes no lock, so a second call may start
\* while a first one is blocked
AskConcurrently ==
    /\ MayCall(2)
    /\ \E name \in DOMAIN history, text \in Range(QueryTexts) :
          AgentQueryBegin("agent_query", Rag, name, text, None)
    /\ ncalls' = ncalls + 1
    /\ UNCHANGED <<locations, dataset, model>>

\* one more turn of a conversation with the first agent: Agent.query up
\* to the call of requests.post, the caller asking the query texts in turn
AskInTurn ==
    /\ inflight = {}
    /\ DOMAIN history # {}
    /\ Len(history[AgentNames[1]]) < MaxTurns
    /\ AgentQueryBegin("agent_query", Rag, AgentNames[1],
                       QueryTexts[(Len(history[AgentNames[1]]) % Len(QueryTexts)) + 1],
                       None)
    /\ UNCHANGED <<locations, dataset, model, ncalls>>

\* route_query looking up a supplied location without testing that it
\* is a key of self.agents: an unregistered one raises KeyError
RouteBegin_strict(lim) ==
    /\ MayAsk(lim)
    /\ DOMAIN history # {}
    /\ \E text \in Range(QueryTexts), loc \in LocationArgs :
          IF loc # None /\ loc # "" /\ loc \in DOMAIN history
          THEN AgentQueryBegin("route_query", Rag, loc, text, loc)
          ELSE IF loc # None /\ loc # ""
          THEN /\ lastOp' = Op("route_query", text, loc, 0, None, NoOutcome, TRUE)
               /\ ret' = NoRet
               /\ UNCHANGED <<documents, index, initialized, history, inflight>>
          ELSE Dispatch(text, loc,
                        IdentifyLocationFromQuery(AgentNames, Rag, locations,
                                                  dataset, model, text))
    /\ ncalls' = ncalls + 1
    /\ UNCHANGED <<locations, dataset, model>>

\* AgentSystem.route_query(query, location) up to the call of requests.post
RouteBegin(lim) ==
    /\ MayAsk(lim)
    /\ DOMAIN history # {}
    /\ \E text \in Range(QueryTexts), loc \in LocationArgs :
          IF loc # None /\ loc # "" /\ loc \in DOMAIN history
          THEN AgentQueryBegin("route_query", Rag, loc, text, loc)
          ELSE Dispatch(text, loc,
                        IdentifyLocationFromQuery(AgentNames, Rag, locations,
                                                  dataset, model, text))
    /\ ncalls' = ncalls + 1
    /\ UNCHANGED <<locations, dataset, model>>

\* AgentSystem.route_query(query, location) up to the call of
\* requests.post, called after earlier calls have returned, the caller
\* sending the query texts in turn
RouteInTurn ==
    /\ MayCall(1)
    /\ DOMAIN history # {}
    /\ \E text \in {QueryTexts[(ncalls % Len(QueryTexts)) + 1]}, loc \in LocationArgs :
          IF loc # None /\ loc # "" /\ loc \in DOMAIN history
          THEN AgentQueryBegin("route_query", Rag, loc, text, loc)
          ELSE Dispatch(text, loc,
                        IdentifyLocationFromQuery(AgentNames, Rag, locations,
                                                  dataset, model, text))
    /\ ncalls' = ncalls + 1
    /\ UNCHANGED <<locations, dataset, model>>

\* requests.post returns or raises, and the call blocked in it runs to
\* its return (lines 51-79 of Agent.query, 162-183 of
\* _generate_general_response)
CallEnd ==
    /\ \E c \in inflight, outcome \in GenerationOutcomes :
          /\ inflight' = inflight \ {c}
          /\ lastOp' = Op(c.op, c.text, c.location, 0, c.agent, outcome, FALSE)
          /\ IF c.kind = "agent"
             THEN /\ history' = [history EXCEPT ![c.agent] =
                                    AgentQueryEnd(history[c.agent], outcome).history]
                  /\ ret' = Ret(AgentQueryEnd(history[c.agent], outcome).answer, <<>>, None)
             ELSE /\ ret' = Ret(GeneralResponseEnd(outcome), <<>>, None)
                  /\ UNCHANGED history
    /\ UNCHANGED <<locations, dataset, model, documents, index, initialized, ncalls>>

\* the agent system serving requests one at a time
Next ==
    \/ Construct
    \/ CallIdentify(1)
    \/ AskBegin(1)
    \/ RouteBegin(1)
    \/ CallEnd

Spec == Init /\ [][Next]_vars

\* a RAGSystem used on its own
NextRag ==
    \/ FileArrives
    \/ CallInitialize(1)
    \/ CallQuery(1)
    \/ CallQueryRecord(1)
    \/ CallGetContext(1)

SpecRag == Init /\ [][NextRag]_vars

\* the corpus built from any set of data files
NextCorpus ==
    \/ SummaryArrives
    \/ CallInitialize(1)

SpecCorpus == InitCorpus /\ [][NextCorpus]_vars

\* questions routed one after another, between other calls
NextRoute ==
    \/ Construct
    \/ CallIdentify(1)
    \/ CallQuery(1)
    \/ CallGetContext(1)
    \/ RouteInTurn
    \/ CallEnd

SpecRoute == Init /\ [][NextRoute]_vars

\* a conversation of several turns with one agent
NextHistory ==
    \/ Construct
    \/ AskInTurn
    \/ CallEnd

SpecHistory == Init /\ [][NextHistory]_vars

\* the agents asked from two threads
NextConcurrent ==
    \/ Construct
    \/ AskConcurrently
    \/ CallEnd

SpecConcurrent == Init /\ [][NextConcurrent]_vars

\* the agent system resolving zones while queries and routed questions
\* are served and data files arrive
NextIdentify ==
    \/ FileArrives
    \/ Construct
    \/ IdentifyZone(1)
    \/ CallQuery(1)
    \/ RouteBegin(1)
    \/ CallEnd

SpecIdentify == Init /\ [][NextIdentify]_vars

(***************************************************************************)
(* Properties                                                              *)
(***************************************************************************)
\* the call that returned last went through Agent.query, and no other
\* call has started since
AskReturned ==
    /\ inflight = {}
    /\ lastOp.op \in {"agent_query", "route_query"}
    /\ lastOp.agent # None
    /\ lastOp.outcome.kind # "none"

LastEntry(name) == history[name][Len(history[name])]

\* the generation service answered with a non-success status
StatusFailure(outcome) == outcome.kind = "response" /\ outcome.status_code # 200

\* the text a blocked call returns for one outcome of the service
ReturnedText(c, outcome) ==
    IF c.kind = "agent"
    THEN AgentQueryEnd(history[c.agent], outcome).answer
    ELSE GeneralResponseEnd(outcome)

\* C1: after ask(q) has returned, whatever the generation service did,
\* the last history entry of the responder holds question q and an answer.
C1_HistoryRoundTrip ==
    AskReturned =>
        /\ history[lastOp.agent] # <<>>
        /\ LastEntry(lastOp.agent).user = lastOp.text
        /\ LastEntry(lastOp.agent).assistant # <<>>

\* C2: when the generation service answers with a non-success status, the
\* answer stored in the last history entry is the string ask returned.
C2_ApologyStored ==
    (AskReturned /\ StatusFailure(lastOp.outcome)) =>
        LastEntry(lastOp.agent).assistant = <<ret.answer>>

\* C3: two failed generation calls that differ only in the status code or
\* the response body give the caller the same text.
C3_FixedFailureText ==
    \A c \in inflight :
        \A o1, o2 \in GenerationOutcomes :
            (StatusFailure(o1) /\ StatusFailure(o2)) =>
                ReturnedText(c, o1) = ReturnedText(c, o2)

\* C4: a non-success status and a transport error give the same returned
\* text and leave the same history.
C4_UniformFailure ==
    \A c \in inflight :
        \A o \in GenerationOutcomes :
            StatusFailure(o) =>
                /\ ReturnedText(c, o) = ReturnedText(c, TransportError)
                /\ c.kind = "agent" =>
                      AgentQueryEnd(history[c.agent], o).history
                          = AgentQueryEnd(history[c.agent], TransportError).history

\* the lines of a context string
ContextLines(context) == Range(Split("\n", context))

\* C5: every record whose content appears in the result of
\* get_context_for_query(text, zone=Z) has zone Z.
C5_ZoneFilter ==
    (lastOp.op = "get_context_for_query" /\ lastOp.location \notin {None, ""}) =>
        \A i \in 1..Len(documents) :
            documents[i].content \in ContextLines(ret.answer) =>
                documents[i].location = lastOp.location

\* a zone-filtered context that kept a record
C5_Witness ==
    /\ lastOp.op = "get_context_for_query"
    /\ lastOp.location = "Ocean"
    /\ Len(documents) > 5
    /\ ret.answer # <<>>

\* C6: with an empty corpus every query returns no record and every
\* get_context_for_query returns the empty string, without raising.
C6_EmptyCorpus ==
    (lastOp.op \in {"query", "get_context_for_query"} /\ documents = <<>>) =>
        /\ ~lastOp.raised
        /\ initialized
        /\ ret.results = <<>>
        /\ ret.answer = <<>>

\* a repeated retrieval call on the empty corpus
C6_Witness ==
    /\ lastOp.op \in {"query", "get_context_for_query"}
    /\ initialized
    /\ documents = <<>>
    /\ ncalls >= 2

\* C7 as stated: with an empty corpus identify_zone returns none for
\* every text.
C7_EmptyCorpusNoZone ==
    (lastOp.op = "identify" /\ initialized /\ documents = <<>>) =>
        ret.location = None

\* the registered zone lower(name) occurs in lower(text)
Mentions(text, name) == IsSubstring(Lower(ZoneChars[name]), Lower(text))

\* C7 amended: with an empty corpus identify_zone returns none exactly
\* for the texts that mention no registered zone name; for a text that
\* mentions one it returns the first such zone in registry order.
C7_EmptyCorpusKeywordOnly ==
    (lastOp.op = "identify" /\ initialized /\ documents = <<>>) =>
        IF \A i \in 1..Len(AgentNames) : ~Mentions(lastOp.text, AgentNames[i])
        THEN ret.location = None
        ELSE \E i \in 1..Len(AgentNames) :
                /\ ret.location = AgentNames[i]
                /\ Mentions(lastOp.text, AgentNames[i])
                /\ \A j \in 1..(i - 1) : ~Mentions(lastOp.text, AgentNames[j])

\* identify_zone on the empty corpus resolved a text that names a zone
C7_Witness ==
    /\ lastOp.op = "identify"
    /\ initialized
    /\ documents = <<>>
    /\ ret.location = "Desert"

Min(a, b) == IF a <= b THEN a ELSE b

\* C8: query(text, top_k) on a built corpus of N records returns
\* min(top_k, N) records, none of them twice.
C8_QueryCount ==
    (lastOp.op = "query" /\ index.built) =>
        /\ Len(ret.results) = Min(lastOp.top_k, Len(documents))
        /\ \A i, j \in 1..Len(ret.results) :
              i # j => ret.results[i].content # ret.results[j].content

\* a call of the build step: RAGSystem.initialize(), directly or from
\* AgentSystem.__init__
BuildStep == CallInitialize(1) \/ Construct

\* C9: a second call of the build step changes neither the record list
\* nor the index, and every query returns what it returned before.
C9_SecondBuildNoOp ==
    [][(initialized /\ BuildStep) =>
          /\ documents' = documents
          /\ index' = index
          /\ initialized'
          /\ \A text \in Range(QueryTexts), k \in TopKs :
                Query(Rag', locations', dataset', model', text, k).results
                    = Query(Rag, locations, dataset, model, text, k).results]_vars

\* the build step was called again after a data file had arrived, and
\* the records are still those of the first build
C9_Witness ==
    /\ lastOp.op = "initialize"
    /\ ncalls >= 2
    /\ dataset # {}
    /\ Len(documents) = 4

\* C10 as stated: building over an empty record list raises a build
\* error and creates no index.
C10_EmptyBuildRaises ==
    [][(~initialized /\ BuildStep /\ documents' = <<>>) =>
          (lastOp'.raised /\ ~index'.built)]_vars

\* C10 amended: building over an empty record list raises nothing and
\* creates no index; the system is marked initialized with no index.
C10_EmptyBuildSilent ==
    [][(~initialized /\ BuildStep /\ documents' = <<>>) =>
          (~lastOp'.raised /\ ~index'.built /\ initialized')]_vars

\* the build step ran over an empty record list
C10_Witness ==
    /\ lastOp.op \in {"initialize", "construct"}
    /\ initialized
    /\ documents = <<>>
    /\ ~index.built

\* the registry order the specification documents
RegistryOrder == <<"Desert", "Rainforest", "Ocean", "LEO-W">>

\* the first zone, in the documented registry order, that text mentions
FirstMentioned(text, zone) ==
    \E i \in 1..Len(RegistryOrder) :
        /\ zone = RegistryOrder[i]
        /\ Mentions(text, RegistryOrder[i])
        /\ \A j \in 1..(i - 1) : ~Mentions(text, RegistryOrder[j])

\* C11: when the lower-cased name of a registered zone is a substring of
\* the lower-cased query text, identify_zone returns the first such zone
\* in the order Desert, Rainforest, Ocean, LEO-W, whatever the order of
\* mention in the text.
C11_KeywordRegistryOrder ==
    (lastOp.op = "identify"
        /\ \E i \in 1..Len(RegistryOrder) : Mentions(lastOp.text, RegistryOrder[i])) =>
        /\ ~lastOp.raised
        /\ FirstMentioned(lastOp.text, ret.location)

\* a text that mentions Ocean before Desert resolved to Desert
C11_Witness ==
    /\ lastOp.op = "identify"
    /\ lastOp.text = QueryTexts[3]
    /\ Mentions(lastOp.text, "Ocean")
    /\ ret.location = "Desert"

\* text mentions no zone of the documented registry
MentionsNoZone(text) ==
    \A i \in 1..Len(RegistryOrder) : ~Mentions(text, RegistryOrder[i])

\* the zone fields of the records query(text, top_k=2) returns
HitZones(text) ==
    [i \in 1..Len(Query(Rag, locations, dataset, model, text, 2).results) |->
        Query(Rag, locations, dataset, model, text, 2).results[i].location]

Occurrences(zones, z) == Cardinality({i \in 1..Len(zones) : zones[i] = z})

\* z occurs in zones[1..n]
OccursWithin(zones, z, n) == \E i \in 1..n : zones[i] = z

\* z wins the vote over zones: no zone occurs more often, and every zone
\* occurring as often occurs first no earlier than z does
WinsVote(zones, z) ==
    /\ Occurrences(zones, z) > 0
    /\ \A i \in 1..Len(zones) :
          /\ Occurrences(zones, zones[i]) <= Occurrences(zones, z)
          /\ (Occurrences(zones, zones[i]) = Occurrences(zones, z)
                 /\ zones[i] # z) => OccursWithin(zones, z, i - 1)

\* C12: when no zone name appears in the query, identify_zone returns the
\* zone occurring most often among the zone fields of the records returned
\* by query(text, top_k=2), and among equally frequent zones the one whose
\* first occurrence is earliest in the returned list.
C12_MajorityVote ==
    (lastOp.op = "identify" /\ MentionsNoZone(lastOp.text)
        /\ HitZones(lastOp.text) # <<>>) =>
        /\ ~lastOp.raised
        /\ WinsVote(HitZones(lastOp.text), ret.location)

\* the vote was tied between two zones and went to the zone of the
\* first hit
C12_Witness ==
    /\ lastOp.op = "identify"
    /\ MentionsNoZone(lastOp.text)
    /\ Len(HitZones(lastOp.text)) = 2
    /\ HitZones(lastOp.text)[1] # HitZones(lastOp.text)[2]
    /\ ret.location = HitZones(lastOp.text)[1]

\* identify_zone returned for a text naming no zone whose top-2 hits are
\* one Ocean record and one Desert record
OceanDesertTie ==
    /\ lastOp.op = "identify"
    /\ MentionsNoZone(lastOp.text)
    /\ Len(HitZones(lastOp.text)) = 2
    /\ Range(HitZones(lastOp.text)) = {"Ocean", "Desert"}

\* C13 as stated: a text naming neither zone whose top-2 hits are one
\* Ocean and one Desert record resolves to the one of the two that comes
\* first in registry order, whatever the order of the hits, without error.
C13_TieByRegistryOrder ==
    OceanDesertTie =>
        /\ ~lastOp.raised
        /\ \E i \in 1..Len(RegistryOrder) :
              /\ ret.location = RegistryOrder[i]
              /\ RegistryOrder[i] \in {"Ocean", "Desert"}
              /\ \A j \in 1..(i - 1) : RegistryOrder[j] \notin {"Ocean", "Desert"}

\* C13 amended: such a text resolves to the zone of the first of the two
\* hits, Ocean when the Ocean record is the nearer one and Desert when
\* the Desert record is, without error.
C13_TieByHitOrder ==
    OceanDesertTie =>
        /\ ~lastOp.raised
        /\ ret.location = HitZones(lastOp.text)[1]

\* the Ocean record was the nearer hit and the text resolved to Ocean
C13_Witness ==
    /\ OceanDesertTie
    /\ HitZones(lastOp.text) = <<"Ocean", "Desert">>
    /\ ret.location = "Ocean"

\* the zone fields of the two records nearest to text in the stored
\* index, read from the stored record list
StoredHitZones(text) ==
    IF index.built
    THEN [i \in 1..2 |->
            PyItem(documents,
                   Search(index.vectors, Encode(model, text), 2)[i]).location]
    ELSE <<>>

\* the zone that the registry, the stored records, the stored index and
\* the text determine
DeterminedZone(text, zones, z) ==
    IF ~MentionsNoZone(text) THEN FirstMentioned(text, z)
    ELSE IF zones = <<>> THEN z = None
    ELSE WinsVote(zones, z)

\* C14: a call of identify_zone changes neither the corpus nor the index,
\* and what it returns is determined by the registry, the corpus, the
\* index and the query text alone, so that two calls with the same text
\* return the same zone (or both none) whatever identify_zone, query or
\* route calls happened between them.
C14_IdentifyDeterministic ==
    [][(lastOp'.op = "identify" /\ ncalls' = ncalls + 1) =>
          /\ ~lastOp'.raised
          /\ documents' = documents
          /\ index' = index
          /\ DeterminedZone(lastOp'.text, StoredHitZones(lastOp'.text), ret'.location)
          /\ \A z \in Range(RegistryOrder) \cup {None} :
                DeterminedZone(lastOp'.text, StoredHitZones(lastOp'.text), z)
                    => z = ret'.location]_vars

\* identify_zone resolved a text by retrieval after an earlier call and
\* after a data file had arrived
C14_Witness ==
    /\ lastOp.op = "identify"
    /\ MentionsNoZone(lastOp.text)
    /\ ret.location # None
    /\ ncalls >= 2
    /\ dataset # {}
    /\ Len(documents) = 4

\* the history after one question is appended to the history of zone
WithQuestion(hist, zone, text) ==
    [hist EXCEPT ![zone] = Append(@, [user |-> text, assistant |-> <<>>])]

\* C15: route(text, zone=Z) with Z supplied and registered dispatches to
\* responder Z without identifying the zone from the text: the question
\* is appended to the history of Z and of no other responder, also when
\* the text names another registered zone.
C15_RouteSuppliedZone ==
    [][\A c \in inflight' \ inflight :
          (c.op = "route_query" /\ c.location \in Range(RegistryOrder)) =>
              /\ c.kind = "agent"
              /\ c.agent = c.location
              /\ history' = WithQuestion(history, c.location, c.text)]_vars

\* a question naming Desert was routed with zone Ocean supplied and is
\* in the history of Ocean, not of Desert
C15_Witness ==
    \E c \in inflight :
        /\ c.op = "route_query"
        /\ c.location = "Ocean"
        /\ Mentions(c.text, "Desert")
        /\ c.agent = "Ocean"
        /\ LastEntry("Ocean").user = c.text
        /\ history["Desert"] = <<>>

\* the contents of the records query(text, top_k=5) returns, one per
\* line, none of them filtered out
UnfilteredContext(text) ==
    Join(<<"\n">>, Contents(Query(Rag, locations, dataset, model, text, 5).results))

\* the payload of the generic responder around a context
GenericPayload(context, text) ==
    GeneralSystemPrompt
    \o <<"\n", "\n", "Relevant Data:", "\n">> \o context
    \o <<"\n", "\n", "User: ">> \o text \o <<"\n", "Assistant:">>

\* C16: when no zone is supplied and identify_zone returns none, route
\* answers through the generic responder: from the call to its return
\* the history of every zone responder is unchanged, the payload has no
\* conversation history and its context is that of get_context_for_query
\* without a zone filter.
C16_GenericResponderFrame ==
    [][/\ \A c \in inflight' \ inflight :
             (c.op = "route_query" /\ c.location = None
                 /\ IdentifyLocationFromQuery(AgentNames, Rag, locations, dataset,
                                              model, c.text).location = None) =>
                 /\ c.kind = "general"
                 /\ history' = history
                 /\ "Conversation History:" \notin Range(c.prompt)
                 /\ c.prompt = GenericPayload(UnfilteredContext(c.text), c.text)
       /\ \A c \in inflight \ inflight' :
             c.kind = "general" => (history' = history /\ ret'.answer # <<>>)]_vars

\* a question without a zone that identify_zone could not resolve is
\* with the generic responder
C16_Witness ==
    \E c \in inflight :
        /\ c.op = "route_query"
        /\ c.location = None
        /\ c.kind = "general"
        /\ MentionsNoZone(c.text)

FirstWithItsVector(i) ==
    \A j \in 1..(i - 1) : index.vectors[j] # index.vectors[i]

PositionOf(payload, token) == CHOOSE p \in 1..Len(payload) : payload[p] = token

\* the conversation-history block of the payload of an ask for text: what
\* stands between the "Conversation History:" line and the new question
HistoryBlock(payload, text) ==
    SubSeq(payload, PositionOf(payload, "Conversation History:") + 2,
           Len(payload) - (Len(text) + 5))

\* one turn as rendered: its User line, then its Assistant line if the
\* entry has an answer
TurnRendered(entry) ==
    <<"User: ">> \o entry.user
    \o (IF entry.assistant # <<>>
        THEN <<"\n", "Assistant: ">> \o entry.assistant[1]
        ELSE <<>>)

\* the last n entries of hist rendered in their stored order
TurnsRendered(hist, n) ==
    Join(<<"\n">>, [k \in 1..n |-> TurnRendered(hist[Len(hist) - n + k])])

NumberOf(payload, token) ==
    Cardinality({p \in 1..Len(payload) : payload[p] = token})

\* C18: in the payload that ask builds, the conversation-history block
\* renders at most 5 turns, namely the 5 most recent entries of the
\* responder's history in their stored order (all entries when there are
\* fewer than 5), an entry without an answer contributing only its User
\* line.
C18_LastFiveTurns ==
    \A c \in inflight :
        c.kind = "agent" =>
            /\ NumberOf(c.prompt, "Conversation History:") = 1
            /\ HistoryBlock(c.prompt, c.text)
                   = TurnsRendered(history[c.agent], Min(5, Len(history[c.agent])))
            /\ NumberOf(HistoryBlock(c.prompt, c.text), "User: ") <= 5

\* a sixth question is asked: the payload renders the last five entries,
\* one of the earlier ones with an answer and one without
C18_Witness ==
    \E c \in inflight :
        /\ c.kind = "agent"
        /\ Len(history[c.agent]) = 6
        /\ NumberOf(HistoryBlock(c.prompt, c.text), "User: ") = 5
        /\ history[c.agent][1].user # history[c.agent][6].user
        /\ history[c.agent][3].assistant = <<>>
        /\ history[c.agent][4].assistant # <<>>

\* C19: route returns an answer text for every query text, every
\* optional zone argument and every outcome of the generation service
\* (success, non-success status, transport error): no call of route ends
\* in an exception, and a call waiting for the service returns a text
\* whatever the service does.
C19_RouteAlwaysAnswers ==
    /\ lastOp.op = "route_query" =>
          /\ ~lastOp.raised
          /\ ret.answer # <<>>
    /\ \A c \in inflight :
          c.op = "route_query" =>
              \A o \in GenerationOutcomes : ReturnedText(c, o) # <<>>

\* a routed question came back with a text after a transport error
C19_Witness ==
    /\ lastOp.op = "route_query"
    /\ lastOp.agent # None
    /\ lastOp.outcome.kind = "exception"
    /\ ret.answer = TechnicalDifficulties

\* another ask on the responder of c is waiting for the service
Overlaps(c) ==
    \E d \in inflight \ {c} : d.kind = "agent" /\ d.agent = c.agent

\* C20: when two ask calls on the same responder overlap in time, their
\* append-then-patch sequences do not interleave: the answer of a call
\* that returns is stored only in an entry that holds the question it
\* was generated for, and no stored answer is overwritten.
C20_NoInterleaving ==
    [][\A c \in inflight \ inflight' :
          (c.kind = "agent" /\ Overlaps(c)) =>
              \A i \in 1..Len(history[c.agent]) :
                  history'[c.agent][i] # history[c.agent][i] =>
                      /\ history[c.agent][i].user = c.text
                      /\ history[c.agent][i].assistant = <<>>]_vars

(***************************************************************************)
(* The corpus builder                                                      *)
(***************************************************************************)
\* the position of a zone in the list the data loader registers
ZonePosition(zone) == CHOOSE i \in 1..Len(locations) : locations[i] = zone

\* the position of a variable in the declaration of its zone
VariablePosition(zone, variable) ==
    CHOOSE i \in 1..Len(MetadataVariables[zone]) :
        MetadataVariables[zone][i] = variable

\* the ordinals of the records of one (zone, variable, column)
RecordsOf(docs, zone, variable, col) ==
    {i \in 1..Len(docs) :
        /\ docs[i].type = "variable_info"
        /\ docs[i].location = zone
        /\ docs[i].variable = variable
        /\ docs[i].column = col}

\* the ordinals of the zone_info records of one zone
ZoneInfoOf(docs, zone) ==
    {i \in 1..Len(docs) :
        docs[i].type = "location_info" /\ docs[i].location = zone}

FirstBuild == ~initialized /\ initialized'

\* C21: the corpus builder emits the zones in the order the data loader
\* registers them; each zone contributes exactly one zone_info record,
\* placed first among the records of the zone, also when the zone has no
\* data; it is followed by exactly one variable_info record per
\* (variable, data column) pair, the variables in declaration order.
C21_CorpusOrder ==
    [][FirstBuild =>
          /\ \A i, j \in 1..Len(documents') :
                i < j => ZonePosition(documents'[i].location)
                            <= ZonePosition(documents'[j].location)
          /\ \A l \in 1..Len(locations) :
                /\ Cardinality(ZoneInfoOf(documents', locations[l])) = 1
                /\ \A i \in ZoneInfoOf(documents', locations[l]) :
                      i = 1 \/ documents'[i - 1].location # locations[l]
          /\ \A i, j \in 1..Len(documents') :
                (/\ i < j
                 /\ documents'[i].type = "variable_info"
                 /\ documents'[j].type = "variable_info"
                 /\ documents'[i].location = documents'[j].location) =>
                    VariablePosition(documents'[i].location, documents'[i].variable)
                        <= VariablePosition(documents'[j].location, documents'[j].variable)
          /\ \A f \in dataset : \A c \in 1..Len(f.columns) :
                Cardinality(RecordsOf(documents', f.location, f.variable,
                                      f.columns[c].col)) = 1
          /\ \A i \in 1..Len(documents') :
                documents'[i].type = "variable_info" =>
                    \E f \in dataset : \E c \in 1..Len(f.columns) :
                        i \in RecordsOf(documents', f.location, f.variable,
                                        f.columns[c].col)]_vars

\* the corpus was built with two variables of Desert and one of Ocean
\* having data, Rainforest and LEO-W having none
C21_Witness ==
    /\ initialized
    /\ Len(documents) = 8
    /\ documents[1].type = "location_info" /\ documents[1].location = "Ocean"
    /\ documents[2].type = "variable_info" /\ documents[2].variable = "pH"
    /\ documents[3].type = "location_info" /\ documents[3].location = "Desert"
    /\ documents[4].variable = "Temperature"
    /\ documents[5].variable = "Temperature"
    /\ documents[6].variable = "Carbon dioxide"
    /\ documents[7].location = "Rainforest"
    /\ documents[8].location = "LEO-W"

\* the (zone, variable) pairs of the registered zones
Pairs ==
    {p \in Range(locations) \X {"pH", "Temperature", "Salinity", "Relative humidity",
                                "Carbon dioxide"} :
        \E i \in 1..Len(MetadataVariables[p[1]]) : MetadataVariables[p[1]][i] = p[2]}

\* the data loader has no summary for a pair: no file, or a file from
\* which no column statistics come
NoSummary(p) ==
    \A f \in dataset :
        (f.location = p[1] /\ f.variable = p[2]) => f.columns = <<>>

\* C22: when the data loader returns no summary (nothing or an empty
\* mapping) for a (zone, variable) pair, the build emits no variable_info
\* record for the pair, raises no error, and still emits the zone_info
\* record of every zone and the variable_info records of every pair
\* that has a summary.
C22_MissingSummarySkipped ==
    [][(FirstBuild /\ \E p \in Pairs : NoSummary(p)) =>
          /\ ~lastOp'.raised
          /\ \A p \in Pairs :
                NoSummary(p) =>
                    ~\E i \in 1..Len(documents') :
                        /\ documents'[i].type = "variable_info"
                        /\ documents'[i].location = p[1]
                        /\ documents'[i].variable = p[2]
          /\ \A l \in 1..Len(locations) :
                ZoneInfoOf(documents', locations[l]) # {}
          /\ \A f \in dataset : \A c \in 1..Len(f.columns) :
                RecordsOf(documents', f.location, f.variable,
                          f.columns[c].col) # {}]_vars

\* the corpus was built while Salinity of Ocean had an empty summary and
\* Relative humidity of Desert had none; the later Carbon dioxide of
\* Desert has its record
C22_Witness ==
    /\ initialized
    /\ \E f \in dataset : f.variable = "Salinity" /\ f.columns = <<>>
    /\ ~\E i \in 1..Len(documents) :
            documents[i].type = "variable_info"
                /\ documents[i].variable \in {"Salinity", "Relative humidity"}
    /\ \E i \in 1..Len(documents) :
            documents[i].type = "variable_info"
                /\ documents[i].location = "Desert"
                /\ documents[i].variable = "Carbon dioxide"

(***************************************************************************)
(* The lifecycle of the index                                              *)
(***************************************************************************)
\* the (data file, column) pairs the loader has summaries for
SummaryColumns ==
    {p \in dataset \X (1..2) : p[2] <= Len(p[1].columns)}

\* C23: a query (directly or through get_context_for_query) that arrives
\* before the build runs the build before it searches: the call leaves
\* the system initialized with one record per zone and per summary
\* column, and the results it returns are records of that corpus.  Once
\* the system is initialized no step changes the record list or the
\* index again.
C23_LazyBuildOnce ==
    [][/\ (/\ ~initialized
           /\ lastOp'.op \in {"query", "get_context_for_query"}
           /\ ncalls' = ncalls + 1) =>
              /\ initialized'
              /\ Len(documents') = Len(locations) + Cardinality(SummaryColumns)
              /\ index'.built = (documents' # <<>>)
              /\ lastOp'.op = "query" =>
                    /\ (ret'.results # <<>>) = (documents' # <<>>)
                    /\ Range(ret'.results) \subseteq Range(documents')
       /\ initialized =>
              /\ initialized'
              /\ documents' = documents
              /\ index' = index]_vars

\* the only call so far was a query; it built the corpus of the four
\* zones and answered from it, and the data file that arrived afterwards
\* added no record
C23_Witness ==
    /\ lastOp.op = "query"
    /\ ncalls = 1
    /\ ret.results # <<>>
    /\ dataset # {}
    /\ Len(documents) = 4

\* no index and no record, or one vector per record, the vector at each
\* ordinal being the embedding of the record at that ordinal
IndexMatchesRecords ==
    \/ ~index.built /\ documents = <<>>
    \/ /\ index.built
       /\ Len(index.vectors) = Len(documents)
       /\ \A i \in 1..Len(documents) :
             index.vectors[i] = Encode(model, documents[i].content)

\* the labels the search gave for the last query
LastLabels == Search(index.vectors, Encode(model, lastOp.text), lastOp.top_k)

\* C24: in every state the index and the record list agree, and every
\* record a query returns is the record at the ordinal of a vector the
\* search matched: the i-th result is the record whose 0-based ordinal
\* is the i-th label, and that label names a vector of the index.
C24_IndexRecordsAgree ==
    /\ IndexMatchesRecords
    /\ (lastOp.op = "query" /\ index.built) =>
          \A i \in 1..Len(ret.results) :
              /\ LastLabels[i] \in 0..(Len(index.vectors) - 1)
              /\ ret.results[i] = documents[LastLabels[i] + 1]

(***************************************************************************)
(* The payload of ask                                                      *)
(***************************************************************************)
\* the contents of the records of zone among the five nearest to text
ZoneContext(text, zone) ==
    LET OfZone(r) == r.location = zone
    IN  Join(<<"\n">>,
             Contents(SelectSeq(Query(Rag, locations, dataset, model, text, 5).results,
                                OfZone)))

\* what the payload holds between the "Relevant Data:" line and the
\* blank line before "Conversation History:"
ContextBlock(payload) ==
    SubSeq(payload, PositionOf(payload, "Relevant Data:") + 2,
           PositionOf(payload, "Conversation History:") - 3)

\* the end of a payload: the new question and the cue for the answer
QuestionBlock(text) == <<"\n", "\n", "User: ">> \o text \o <<"\n", "Assistant:">>

\* C25: the payload ask hands to the generation service starts with the
\* persona preamble naming the zone and giving its description, then
\* holds the grounding instructions, then the retrieved context block
\* made of the retrieved records of the responder's own zone only, then
\* the conversation-history block, and ends with the new question.
C25_PayloadOrder ==
    \A c \in inflight :
        c.kind = "agent" =>
            LET persona == PositionOf(c.prompt, "You are an expert on the BioSphere 2 ")
                descr   == PositionOf(c.prompt, AgentDescription[c.agent])
                first   == PositionOf(c.prompt, "IMPORTANT: Always use the actual data provided in the context to answer questions. Never make up or guess values.")
                last    == PositionOf(c.prompt, "Be precise and scientific in your responses.")
                data    == PositionOf(c.prompt, "Relevant Data:")
                hist    == PositionOf(c.prompt, "Conversation History:")
                tail    == Len(c.prompt) - Len(QuestionBlock(c.text)) + 1
            IN  /\ NumberOf(c.prompt, "Relevant Data:") = 1
                /\ NumberOf(c.prompt, "Conversation History:") = 1
                /\ persona = 1
                /\ SubSeq(c.prompt, 2, 1 + Len(ZoneChars[c.agent])) = ZoneChars[c.agent]
                /\ persona < descr /\ descr < first /\ first < last
                /\ last < data /\ data < hist /\ hist < tail
                /\ ContextBlock(c.prompt) = ZoneContext(c.text, c.agent)
                /\ SubSeq(c.prompt, tail, Len(c.prompt)) = QuestionBlock(c.text)

\* a question is with the generation service for the Desert responder:
\* its context block holds a Desert record, and a record of another zone
\* was among the five retrieved
C25_Witness ==
    \E c \in inflight :
        /\ c.kind = "agent"
        /\ c.agent = "Desert"
        /\ ContextBlock(c.prompt) # <<>>
        /\ \E r \in Range(Query(Rag, locations, dataset, model, c.text, 5).results) :
              r.location # "Desert"

(***************************************************************************)
(* Routing                                                                 *)
(***************************************************************************)
\* a supplied zone that is not a key of the registry
Unregistered(zone) == zone \notin Range(RegistryOrder) \cup {None}

\* C26: route(text, zone=Z) with Z supplied but not a key of the registry
\* (such as a registered name in another letter case) raises nothing: the
\* zone is identified from the text, by name or by the retrieval vote,
\* and the question goes to the responder of that zone, or to the
\* generic responder when no zone is identified.
C26_UnregisteredZoneFallsBack ==
    [][/\ (ncalls' = ncalls + 1 /\ lastOp'.op = "route_query"
              /\ Unregistered(lastOp'.location)) => ~lastOp'.raised
       /\ \A c \in inflight' \ inflight :
             (c.op = "route_query" /\ Unregistered(c.location)) =>
                 \E z \in Range(RegistryOrder) \cup {None} :
                     /\ DeterminedZone(c.text, StoredHitZones(c.text), z)
                     /\ IF z = None
                        THEN c.kind = "general" /\ history' = history
                        ELSE /\ c.kind = "agent"
                             /\ c.agent = z
                             /\ history' = WithQuestion(history, z, c.text)]_vars

\* a question naming no zone was routed with zone "ocean" supplied and
\* is with the responder the retrieval vote chose, which is not Ocean
C26_Witness ==
    \E c \in inflight :
        /\ c.op = "route_query"
        /\ c.location = "ocean"
        /\ MentionsNoZone(c.text)
        /\ c.kind = "agent"
        /\ c.agent # "Ocean"

\* C27: every zone identify_zone returns, by name or by the retrieval
\* vote, is a key of the zone registry, every record carries the name of
\* a registered zone as its zone tag, and no route call fails on a
\* missing responder.
C27_IdentifiedZoneRegistered ==
    /\ lastOp.op = "identify" =>
          ret.location \in Range(AgentNames) \cup {None}
    /\ \A i \in 1..Len(documents) : documents[i].location \in Range(AgentNames)
    /\ lastOp.op = "route_query" => ~lastOp.raised
    /\ \A c \in inflight : c.kind = "agent" => c.agent \in DOMAIN history

\* identify_zone resolved a text that names no zone to Ocean, the zone
\* tag of the records retrieved
C27_Witness ==
    /\ lastOp.op = "identify"
    /\ MentionsNoZone(lastOp.text)
    /\ ret.location = "Ocean"

(***************************************************************************)
(* The history around one ask                                              *)
(***************************************************************************)
\* the User line of a question
UserLine(text) == <<"User: ">> \o text

\* seq ends with suffix
EndsWith(seq, suffix) ==
    /\ Len(suffix) <= Len(seq)
    /\ SubSeq(seq, Len(seq) - Len(suffix) + 1, Len(seq)) = suffix

\* C28: while the generation service is being called for an ask, the
\* last entry of the responder's history holds the question of that ask
\* and no answer, the conversation-history block of the payload ends
\* with the User line of that question, and at most 4 turns are rendered
\* before it.
C28_PendingTurnRendered ==
    \A c \in inflight :
        c.kind = "agent" =>
            /\ history[c.agent] # <<>>
            /\ history[c.agent][Len(history[c.agent])]
                   = [user |-> c.text, assistant |-> <<>>]
            /\ EndsWith(HistoryBlock(c.prompt, c.text), UserLine(c.text))
            /\ NumberOf(HistoryBlock(c.prompt, c.text), "User: ") - 1 <= 4

\* a sixth question is with the generation service: four earlier turns
\* stand before its User line, the turn before it with an answer
C28_Witness ==
    \E c \in inflight :
        /\ c.kind = "agent"
        /\ Len(history[c.agent]) = 6
        /\ history[c.agent][5].assistant # <<>>
        /\ NumberOf(HistoryBlock(c.prompt, c.text), "User: ") = 5
        /\ EndsWith(HistoryBlock(c.prompt, c.text), UserLine(c.text))

\* C29: every ask lengthens the history of its responder by exactly one
\* entry, appended when the ask starts, and writes nothing but the
\* answer of that entry when it returns; no step removes, reorders or
\* truncates entries, changes the question of an entry, or modifies an
\* entry that is not the last one.
C29_HistoryAppendOnly ==
    [][/\ \A c \in inflight' \ inflight :
             c.kind = "agent" =>
                 history' = WithQuestion(history, c.agent, c.text)
       /\ \A c \in inflight \ inflight' :
             c.kind = "agent" =>
                 /\ Len(history'[c.agent]) = Len(history[c.agent])
                 /\ history[c.agent][Len(history[c.agent])].user = c.text
                 /\ \A z \in DOMAIN history \ {c.agent} : history'[z] = history[z]
       /\ \A z \in DOMAIN history :
             /\ Len(history'[z]) >= Len(history[z])
             /\ \A i \in 1..Len(history[z]) :
                   /\ history'[z][i].user = history[z][i].user
                   /\ i < Len(history[z]) => history'[z][i] = history[z][i]]_vars

\* a sixth ask has returned with its answer stored; the first entry,
\* left without an answer by a failed call, is as it was
C29_Witness ==
    /\ inflight = {}
    /\ lastOp.op = "agent_query"
    /\ Len(history[AgentNames[1]]) = 6
    /\ history[AgentNames[1]][6].assistant # <<>>
    /\ history[AgentNames[1]][1].assistant = <<>>
    /\ history[AgentNames[1]][2].assistant # <<>>

\* the histories of all responders but one are as they were
OthersUnchanged(zone) ==
    \A z \in DOMAIN history : z # zone => history'[z] = history[z]

\* C30: a route call changes the history of at most one responder, the
\* one it dispatches to, when it starts and when it returns; it leaves
\* the histories of the other responders, the zone registry, the record
\* list and the index unchanged.  The calls identify_zone, query and
\* get_context_for_query change no history.
C30_RouteFrame ==
    [][/\ \A c \in (inflight' \ inflight) \cup (inflight \ inflight') :
             c.op = "route_query" =>
                 /\ OthersUnchanged(c.agent)
                 /\ DOMAIN history' = DOMAIN history
                 /\ documents' = documents
                 /\ index' = index
       /\ (/\ ncalls' = ncalls + 1
           /\ inflight' = inflight
           /\ lastOp'.op \in {"identify", "query", "get_context_for_query",
                               "route_query"}) =>
              /\ history' = history
              /\ lastOp'.op = "route_query" =>
                    (documents' = documents /\ index' = index)]_vars

\* a question routed to the Desert responder has returned with its
\* answer stored, and the entry an earlier route call left in the
\* history of another responder is still there
C30_Witness ==
    /\ inflight = {}
    /\ lastOp.op = "route_query"
    /\ lastOp.agent = "Desert"
    /\ history["Desert"] # <<>>
    /\ history["Desert"][Len(history["Desert"])].assistant # <<>>
    /\ \E z \in DOMAIN history \ {"Desert"} : history[z] # <<>>

====
